---------------------------- MODULE Spec2Model ----------------------------
(***************************************************************************)
(* A model of newtrading.py, the Streamlit dashboard script.               *)
(*                                                                         *)
(* The script is re-executed top to bottom on every user interaction (a    *)
(* "script run").  The only state that survives from one run to the next   *)
(* is st.session_state; every other name of the script is bound anew in    *)
(* each run.  One action of the model is one block of the script; pc is    *)
(* the block the current run executes next.                                *)
(*                                                                         *)
(* Numbers.  Dates are day numbers.  Prices are integers, and every        *)
(* derived value is kept exact: a cell of a derived column is << >> (NaN)  *)
(* or a fraction <<numerator, denominator>> with a positive denominator.   *)
(* Floating-point rounding is not modelled.                                *)
(***************************************************************************)
EXTENDS Integers, Sequences, FiniteSets

(***************************************************************************)
(* Program constants.                                                      *)
(***************************************************************************)
SMA_SHORT  == 50      \* data["Close"].rolling(50)
SMA_LONG   == 200     \* data["Close"].rolling(200)
RSI_WINDOW == 14      \* RSIIndicator(..., window=14)
RSI_OVERBOUGHT == 70  \* last_rsi > 70
RSI_OVERSOLD   == 30  \* last_rsi < 30
max_range_days == 365 * 10

(***************************************************************************)
(* Bounds of the model.                                                    *)
(***************************************************************************)
MaxLen     == 201     \* longest downloaded table, in rows
BasePrice  == 100     \* the close of the flat part of a downloaded series
DayStep    == 1500    \* distance, in days, between two selectable dates
MaxDateIdx == 3       \* today is day MaxDateIdx * DayStep

NoDate == 0 - 1       \* a date name the run has not bound yet
NaN    == << >>

Min(a, b) == IF a < b THEN a ELSE b
Max(a, b) == IF a > b THEN a ELSE b
Abs(a)    == IF a < 0 THEN 0 - a ELSE a

RECURSIVE Gcd(_, _)
Gcd(a, b) == IF b = 0 THEN a ELSE Gcd(b, a % b)

RECURSIVE Pow(_, _)
Pow(b, e) == IF e = 0 THEN 1 ELSE b * Pow(b, e - 1)

\* A fraction in lowest terms (the denominator stays positive).
Frac(p, q) == LET g == Gcd(Abs(p), q) IN <<p \div g, q \div g>>

IsNaN(c) == c = NaN
\* Python's float comparisons: every comparison with NaN is False.
Gt(a, b) == ~IsNaN(a) /\ ~IsNaN(b) /\ a[1] * b[2] > b[1] * a[2]
Lt(a, b) == ~IsNaN(a) /\ ~IsNaN(b) /\ a[1] * b[2] < b[1] * a[2]
Num(k)   == <<k, 1>>

(***************************************************************************)
(* pandas.Series.rolling(w).mean(): min_periods defaults to w and the      *)
(* window is trailing.  pandas keeps a running sum, adding the entering    *)
(* bar and removing the bar that leaves the window; a cell is NaN until w  *)
(* bars have been seen.  RunningSum(x, lo, hi, s) is the running sum after *)
(* each of the rows lo..hi, s being the sum before row lo (the rows are    *)
(* split in halves only to keep the evaluation shallow).                   *)
(***************************************************************************)
RECURSIVE RunningSum(_, _, _, _)
RunningSum(x, lo, hi, s) ==
    IF lo > hi THEN << >>
    ELSE IF lo = hi THEN <<s + x[lo]>>
    ELSE LET mid   == (lo + hi) \div 2
             left  == RunningSum(x, lo, mid, s)
         IN  left \o RunningSum(x, mid + 1, hi, left[Len(left)])

\* rolling(w, min_periods=1): the mean of the bars seen so far, w at most.
RollingMeanMinPeriods1(x, w) ==
    LET added == RunningSum(x, 1, Len(x), 0)
    IN  [i \in 1..Len(x) |->
            <<added[i] - (IF i > w THEN added[i - w] ELSE 0), Min(i, w)>>]

\* rolling(w, center=True): the window is centred on the row.
RollingMeanCentered(x, w) ==
    LET added  == RunningSum(x, 1, Len(x), 0)
        ahead  == (w - 1) \div 2
    IN  [i \in 1..Len(x) |->
            LET j == i + ahead
            IN  IF j <= Len(x) /\ j >= w
                THEN <<added[j] - (IF j > w THEN added[j - w] ELSE 0), w>>
                ELSE NaN]

RollingMean(x, w) ==
    LET added == RunningSum(x, 1, Len(x), 0)
    IN  [i \in 1..Len(x) |->
            LET nobs    == Min(i, w)
                removed == IF i > w THEN added[i - w] ELSE 0
            IN  IF nobs >= w THEN <<added[i] - removed, nobs>> ELSE NaN]

(***************************************************************************)
(* pandas.Series.pct_change(): NaN in the first row, then                  *)
(* close[i] / close[i-1] - 1.                                              *)
(***************************************************************************)
PctChange(x) ==
    [i \in 1..Len(x) |->
        IF i = 1 THEN NaN ELSE Frac(x[i] - x[i - 1], x[i - 1])]

(***************************************************************************)
(* ta.momentum.RSIIndicator(close, window).rsi() with fillna=False:        *)
(*   diff = close.diff(1)                                                  *)
(*   up   = diff.where(diff > 0, 0.0);  dn = -diff.where(diff < 0, 0.0)    *)
(*   emaup = up.ewm(alpha=1/window, min_periods=window, adjust=False)      *)
(*             .mean();  emadn likewise                                    *)
(*   rsi = where(emadn == 0, 100, 100 - 100 / (1 + emaup / emadn))         *)
(* The NaN of diff in the first row fails diff > 0 and becomes 0.0, so the *)
(* first row counts as an observation of the ewm.                          *)
(*                                                                         *)
(* An ewm value is kept as <<n, e>>, meaning n / window^e.                 *)
(***************************************************************************)
Diff(x, i) == IF i = 1 THEN 0 ELSE x[i] - x[i - 1]
UpMove(x, i) == IF Diff(x, i) > 0 THEN Diff(x, i) ELSE 0
DnMove(x, i) == IF Diff(x, i) < 0 THEN 0 - Diff(x, i) ELSE 0

\* y_t = (1 - 1/w) * y_(t-1) + (1/w) * x_t
EwmStep(y, v, w) ==
    IF y[1] = 0 /\ v = 0 THEN <<0, 0>>
    ELSE <<(w - 1) * y[1] + v * Pow(w, y[2]), y[2] + 1>>

RsiValue(up, dn, w) ==
    IF dn[1] = 0 THEN Num(100)
    ELSE LET e == Max(up[2], dn[2])
             u == up[1] * Pow(w, e - up[2])
             d == dn[1] * Pow(w, e - dn[2])
         IN  Frac(100 * u, u + d)

\* The first diff left as NaN: the ewm skips it and needs one row more.
RsiFirstDefinedSkippingFirst(w) == w + 1

\* The first row at which the ewm has seen min_periods observations.
RsiFirstDefined(w) == w

\* The pair <<emaup, emadn>> after each of the rows lo..hi, st being the pair
\* before row lo.  In the first row the ewm starts at the observation itself.
RECURSIVE EwmPairs(_, _, _, _, _)
EwmPairs(x, w, lo, hi, st) ==
    IF lo > hi THEN << >>
    ELSE IF lo = hi
         THEN IF lo = 1 THEN << <<<<UpMove(x, 1), 0>>, <<DnMove(x, 1), 0>>>> >>
              ELSE << <<EwmStep(st[1], UpMove(x, lo), w),
                        EwmStep(st[2], DnMove(x, lo), w)>> >>
    ELSE LET mid   == (lo + hi) \div 2
             left  == EwmPairs(x, w, lo, mid, st)
         IN  left \o EwmPairs(x, w, mid + 1, hi, left[Len(left)])

Rsi(x, w) ==
    LET ema == EwmPairs(x, w, 1, Len(x), <<<<0, 0>>, <<0, 0>>>>)
    IN  [i \in 1..Len(x) |->
            IF i >= RsiFirstDefined(w)
            THEN RsiValue(ema[i][1], ema[i][2], w) ELSE NaN]

(***************************************************************************)
(* Tables.  A DataFrame is a record: its column labels, the Close column   *)
(* and the rows that hold a NaN in some column (what dropna removes), and  *)
(* the derived columns once get_indicators has added them.  A column label *)
(* is a tuple of components (one component for a plain Index, two for the  *)
(* MultiIndex (Price, Ticker) of a yfinance download); a component is a    *)
(* string with a flag saying that whitespace surrounds it.                 *)
(***************************************************************************)
Comp(text)      == [text |-> text, padded |-> FALSE]
Truthy(c)       == c.text # "" \/ c.padded         \* a non-empty str
Strip(c)        == [text |-> c.text, padded |-> FALSE]

PriceColumns    == <<"Close", "High", "Low", "Open", "Volume">>
DerivedColumns  == <<"SMA_50", "SMA_200", "Daily Return", "RSI">>

NoTable ==
    [bound |-> FALSE, multi |-> FALSE, columns |-> << >>, Close |-> << >>,
     nan_rows |-> {}, SMA_50 |-> << >>, SMA_200 |-> << >>,
     DailyReturn |-> << >>, RSI |-> << >>]

RawTable(kind, symbol, close, nan_rows) ==
    [NoTable EXCEPT
        !.bound    = TRUE,
        !.multi    = (kind = "multi"),
        !.columns  = [i \in 1..Len(PriceColumns) |->
                         IF kind = "multi"
                         THEN <<Comp(PriceColumns[i]), Comp(symbol)>>
                         ELSE <<Comp(PriceColumns[i])>>],
        !.Close    = close,
        !.nan_rows = nan_rows]

HasColumn(t, name) == \E i \in 1..Len(t.columns) : t.columns[i] = <<Comp(name)>>

\* DataFrame.dropna(): the rows without a NaN, in their order.
RECURSIVE KeepRows(_, _, _, _)
KeepRows(x, drop, lo, hi) ==
    IF lo > hi THEN << >>
    ELSE IF lo = hi THEN (IF lo \in drop THEN << >> ELSE <<x[lo]>>)
    ELSE LET mid == (lo + hi) \div 2
         IN  KeepRows(x, drop, lo, mid) \o KeepRows(x, drop, mid + 1, hi)

DropNa(t) ==
    [t EXCEPT !.Close = KeepRows(t.Close, t.nan_rows, 1, Len(t.Close)),
              !.nan_rows = {}]

\* flatten_columns(df): the table df is after the call (df is changed in
\* place and returned).
FlattenedLabel(multi, c) ==
    LET first == IF multi THEN (IF Truthy(c[1]) THEN c[1] ELSE c[2]) ELSE c[1]
    IN  <<Strip(first)>>

flatten_columns(df) ==
    [df EXCEPT !.multi   = FALSE,
               !.columns = [i \in 1..Len(df.columns) |->
                               FlattenedLabel(df.multi, df.columns[i])]]

\* The body of get_indicators(data): the table data is after the call (the
\* four columns are assigned to data itself, which is returned).
get_indicators(data) ==
    [data EXCEPT
        !.columns     = data.columns \o
                        [i \in 1..Len(DerivedColumns) |-> <<Comp(DerivedColumns[i])>>],
        !.SMA_50      = RollingMean(data.Close, SMA_SHORT),
        !.SMA_200     = RollingMean(data.Close, SMA_LONG),
        !.DailyReturn = PctChange(data.Close),
        !.RSI         = Rsi(data.Close, RSI_WINDOW)]

(***************************************************************************)
(* The downloads the model draws from: a series is flat at BasePrice and   *)
(* ends in a short tail (offsets from BasePrice); its length lies next to  *)
(* one of the thresholds 0, RSI_WINDOW, SMA_SHORT, or is SMA_LONG - 1 or   *)
(* more.                                                                   *)
(***************************************************************************)
Tails ==
    { << >>, <<1>>, <<-1>>, <<1, -1>>, <<98, 59>>, <<6, -7>>, <<3, 2>>, <<1, -2>> }

Lens ==
    { n \in 0..MaxLen :
        \/ \E t \in {0, RSI_WINDOW, SMA_SHORT} : Abs(n - t) <= 1
        \/ n >= SMA_LONG - 1 }

SeriesOf(n, tail) ==
    [i \in 1..n |->
        IF i <= n - Len(tail) THEN BasePrice
        ELSE BasePrice + tail[i - (n - Len(tail))]]

NanPatterns(n) == { {}, {1} \cap (1..n), {n} \cap (1..n), 1..n }

DownloadsOfLen(n, tails, kinds, symbol) ==
    { RawTable(k, symbol, SeriesOf(n, t), nr) :
        k \in kinds, t \in { u \in tails : Len(u) <= n }, nr \in NanPatterns(n) }

Downloads(lens, tails, kinds, symbol) ==
    UNION { DownloadsOfLen(n, tails, kinds, symbol) : n \in lens }

(***************************************************************************)
(* State.                                                                  *)
(***************************************************************************)
VARIABLES
    session_state,    \* st.session_state: a function on the keys it holds
    pc,               \* the block the run executes next, or how the run ended
    category,         \* the "Select Asset Category" selectbox
    w_start, w_end,   \* the date widgets: the day picked, or NoDate (the default)
    clicked,          \* st.button("Analyze") returns True in this run
    earliest_date, user_start_date, end_date, start_date,
    data, full_data,  \* the tables the names data and full_data refer to
    passed,           \* history: the argument of the latest call of
                      \* flatten_columns or get_indicators, as it was at the call
    out               \* what the run has written to the page, in order

vars == <<session_state, pc, category, w_start, w_end, clicked, earliest_date,
          user_start_date, end_date, start_date, data, full_data, passed, out>>

Categories == {"Stocks", "ETFs"}
\* The symbol selectbox, left at the first symbol of the category.
SymbolOf(c) == IF c = "Stocks" THEN "AAPL" ELSE "SPY"

Dates == { k * DayStep : k \in 0..MaxDateIdx }
Today == MaxDateIdx * DayStep

EndedPcs    == {"done", "stopped", "crashed", "rerun"}
AnalysisPcs == {"get_data", "flatten", "indicators", "charts", "ma_signal",
                "volatility", "rsi", "fundamentals"}

Analyzed == "analyzed" \in DOMAIN session_state /\ session_state["analyzed"]

Emit(msgs) == out' = out \o msgs

RunLocalsUnbound ==
    /\ earliest_date = NoDate /\ user_start_date = NoDate
    /\ end_date = NoDate /\ start_date = NoDate
    /\ data = NoTable /\ full_data = NoTable /\ passed = NoTable
    /\ out = << >>

\* A new session: the first run, every widget at its default.
Init ==
    /\ session_state = [k \in {} |-> FALSE]
    /\ pc = "start"
    /\ category = "Stocks"
    /\ w_start = NoDate /\ w_end = NoDate
    /\ clicked = FALSE
    /\ RunLocalsUnbound

\* A user interaction (or st.experimental_rerun) starts the next run.  The
\* Analyze button can be pressed only if the last run drew it.
StartRun ==
    /\ pc \in EndedPcs
    /\ pc' = "start"
    /\ IF pc = "rerun"
       THEN /\ clicked' = FALSE
            /\ UNCHANGED <<category, w_start, w_end>>
       ELSE /\ clicked' \in (IF pc = "stopped" THEN {FALSE} ELSE BOOLEAN)
            /\ category' \in Categories
            /\ w_start' \in Dates \cup {NoDate}
            /\ w_end' \in Dates \cup {NoDate}
    /\ earliest_date' = NoDate /\ user_start_date' = NoDate
    /\ end_date' = NoDate /\ start_date' = NoDate
    /\ data' = NoTable /\ full_data' = NoTable /\ passed' = NoTable
    /\ out' = << >>
    /\ UNCHANGED session_state

\* Lines 17-19.
SessionInit ==
    /\ pc = "start"
    /\ session_state' = IF "analyzed" \in DOMAIN session_state
                        THEN session_state
                        ELSE [k \in {"analyzed"} |-> FALSE]
    /\ pc' = "fetch_history"
    /\ UNCHANGED <<category, w_start, w_end, clicked, earliest_date,
                   user_start_date, end_date, start_date, data, full_data,
                   passed, out>>

\* Lines 53-58: the history is empty, or it starts on some day up to today.
FetchHistory ==
    /\ pc = "fetch_history"
    /\ \/ /\ Emit(<<"error_no_data">>)
          /\ pc' = "stopped"
          /\ UNCHANGED earliest_date
       \/ /\ earliest_date' \in Dates
          /\ pc' = "date_selection"
          /\ UNCHANGED out
    /\ UNCHANGED <<session_state, category, w_start, w_end, clicked,
                   user_start_date, end_date, start_date, data, full_data,
                   passed>>

\* Line 86.
EffectiveStart(user_start, earliest, end) ==
    Max(Max(user_start, earliest), end - max_range_days)

\* Lines 61-95.
DateSelection ==
    /\ pc = "date_selection"
    /\ LET us == IF w_start = NoDate THEN earliest_date ELSE w_start
           en == IF w_end = NoDate THEN Today ELSE w_end
           sd == EffectiveStart(us, earliest_date, en)
       IN  /\ user_start_date' = us
           /\ end_date' = en
           /\ IF us >= en
              THEN /\ Emit(<<"error_start_not_before_end">>)
                   /\ pc' = "stopped"
                   /\ UNCHANGED start_date
              ELSE /\ start_date' = sd
                   /\ Emit((IF sd > us THEN <<"warning_range_limited">> ELSE << >>)
                           \o <<"info_selected_range">>)
                   /\ pc' = "button"
    /\ UNCHANGED <<session_state, category, w_start, w_end, clicked,
                   earliest_date, data, full_data, passed>>

\* Lines 125-127.
AnalyzeButton ==
    /\ pc = "button"
    /\ IF clicked
       THEN /\ session_state' = [session_state EXCEPT !["analyzed"] = TRUE]
            /\ pc' = "rerun"
       ELSE /\ pc' = "gate"
            /\ UNCHANGED session_state
    /\ UNCHANGED <<category, w_start, w_end, clicked, earliest_date,
                   user_start_date, end_date, start_date, data, full_data,
                   passed, out>>

\* The analysis block entered whatever the flag.
GateIgnoringFlag ==
    /\ pc = "gate"
    /\ pc' = "get_data"
    /\ UNCHANGED <<session_state, category, w_start, w_end, clicked,
                   earliest_date, user_start_date, end_date, start_date, data,
                   full_data, passed, out>>

\* Line 130.
Gate ==
    /\ pc = "gate"
    /\ pc' = IF session_state["analyzed"] THEN "get_data" ELSE "final"
    /\ UNCHANGED <<session_state, category, w_start, w_end, clicked,
                   earliest_date, user_start_date, end_date, start_date, data,
                   full_data, passed, out>>

\* Lines 98-101 and 131.  yf.download returns the rows of the trading days
\* from start to end (none when start is not before end), and get_data drops
\* the rows with a NaN.  The one-hour cache of get_data returns a table that
\* an earlier download for the same symbol and dates produced; as a download
\* may produce any table of the range, a cache hit adds no behaviour.
GetData(downloads) ==
    /\ pc = "get_data"
    /\ \E raw \in downloads :
          /\ Len(raw.Close) <= Max(0, end_date - start_date)
          /\ data' = DropNa(raw)
    /\ pc' = "flatten"
    /\ UNCHANGED <<session_state, category, w_start, w_end, clicked,
                   earliest_date, user_start_date, end_date, start_date,
                   full_data, passed, out>>

\* Line 132.
FlattenColumns ==
    /\ pc = "flatten"
    /\ passed' = data
    /\ data' = flatten_columns(data)
    /\ pc' = "indicators"
    /\ UNCHANGED <<session_state, category, w_start, w_end, clicked,
                   earliest_date, user_start_date, end_date, start_date,
                   full_data, out>>

\* Lines 104-110 and 133.  st.cache_data is shared by every session of the
\* server and expires after an hour, so the call may hit or miss whatever
\* this session did before.  On a miss the body runs on the caller's table
\* and its result is returned; on a hit the body does not run and a copy of
\* the stored result is returned.
GetIndicators ==
    /\ pc = "indicators"
    /\ passed' = data
    /\ IF ~HasColumn(data, "Close")
       THEN /\ pc' = "crashed"                       \* KeyError
            /\ UNCHANGED <<data, full_data>>
       ELSE /\ \E hit \in BOOLEAN :
                 /\ data' = IF hit THEN data ELSE get_indicators(data)
                 /\ full_data' = get_indicators(data)
            /\ pc' = "charts"
    /\ UNCHANGED <<session_state, category, w_start, w_end, clicked,
                   earliest_date, user_start_date, end_date, start_date, out>>

\* Lines 136-163: the close price with its support and resistance bands, and
\* the moving-average chart.  Both draw an empty table as an empty chart.
Charts ==
    /\ pc = "charts"
    /\ Emit(<<"chart_close", "chart_moving_averages">>)
    /\ pc' = "ma_signal"
    /\ UNCHANGED <<session_state, category, w_start, w_end, clicked,
                   earliest_date, user_start_date, end_date, start_date, data,
                   full_data, passed>>

\* Lines 169-175.
MaMessages(last50, last200) ==
    IF ~IsNaN(last50) /\ ~IsNaN(last200)
    THEN IF Gt(last50, last200) THEN <<"ma_buy">>
         ELSE IF Lt(last50, last200) THEN <<"ma_sell">>
         ELSE << >>
    ELSE <<"ma_not_enough_data">>

\* Lines 166-175.  .iloc[-1] of an empty column raises IndexError.
MASignal ==
    /\ pc = "ma_signal"
    /\ LET n == Len(full_data.SMA_50)
       IN  IF n = 0
           THEN /\ pc' = "crashed"
                /\ UNCHANGED out
           ELSE /\ Emit(MaMessages(full_data.SMA_50[n], full_data.SMA_200[n]))
                /\ pc' = "volatility"
    /\ UNCHANGED <<session_state, category, w_start, w_end, clicked,
                   earliest_date, user_start_date, end_date, start_date, data,
                   full_data, passed>>

\* Series.std() skips NaN and is NaN for fewer than two values; the product
\* with 252 ** 0.5 is then NaN, which the format prints as "nan%".
VolatilityDefined(returns) ==
    Cardinality({ i \in 1..Len(returns) : ~IsNaN(returns[i]) }) >= 2

\* Lines 178-180.
Volatility ==
    /\ pc = "volatility"
    /\ Emit(IF VolatilityDefined(full_data.DailyReturn)
            THEN <<"volatility">> ELSE <<"volatility_nan">>)
    /\ pc' = "rsi"
    /\ UNCHANGED <<session_state, category, w_start, w_end, clicked,
                   earliest_date, user_start_date, end_date, start_date, data,
                   full_data, passed>>

\* The thresholds taken as part of the outer ranges.
RsiMessagesInclusive(rsi) ==
    IF \E i \in 1..Len(rsi) : ~IsNaN(rsi[i])
    THEN LET last_rsi == rsi[Len(rsi)]
         IN  IF ~Lt(last_rsi, Num(RSI_OVERBOUGHT)) THEN <<"rsi_overbought">>
             ELSE IF ~Gt(last_rsi, Num(RSI_OVERSOLD)) THEN <<"rsi_oversold">>
             ELSE <<"rsi_neutral">>
    ELSE << >>

\* Lines 186-193.
RsiMessages(rsi) ==
    IF \E i \in 1..Len(rsi) : ~IsNaN(rsi[i])         \* not rsi.dropna().empty
    THEN LET last_rsi == rsi[Len(rsi)]
         IN  IF Gt(last_rsi, Num(RSI_OVERBOUGHT)) THEN <<"rsi_overbought">>
             ELSE IF Lt(last_rsi, Num(RSI_OVERSOLD)) THEN <<"rsi_oversold">>
             ELSE <<"rsi_neutral">>
    ELSE << >>

\* Lines 183-193.
RSIBlock ==
    /\ pc = "rsi"
    /\ Emit(<<"chart_rsi">> \o RsiMessages(full_data.RSI))
    /\ pc' = "fundamentals"
    /\ UNCHANGED <<session_state, category, w_start, w_end, clicked,
                   earliest_date, user_start_date, end_date, start_date, data,
                   full_data, passed>>

\* Lines 196-216.  Fetching or formatting the fundamentals may raise; the
\* except clause turns that into a warning.
Fundamentals ==
    /\ pc = "fundamentals"
    /\ IF category = "Stocks"
       THEN \E raised \in BOOLEAN :
               Emit(IF raised THEN <<"warning_fundamentals">>
                    ELSE <<"fundamentals">>)
       ELSE Emit(<<"info_fundamentals_stocks_only">>)
    /\ pc' = "final"
    /\ UNCHANGED <<session_state, category, w_start, w_end, clicked,
                   earliest_date, user_start_date, end_date, start_date, data,
                   full_data, passed>>

\* Line 219.
Final ==
    /\ pc = "final"
    /\ Emit(<<"analysis_complete">>)
    /\ pc' = "done"
    /\ UNCHANGED <<session_state, category, w_start, w_end, clicked,
                   earliest_date, user_start_date, end_date, start_date, data,
                   full_data, passed>>

(***************************************************************************)
(* Spec: a session, run after run.  The downloads of a session are the     *)
(* series at the shortest and the longest lengths.                         *)
(***************************************************************************)
SessionLens == { n \in Lens : n <= 1 \/ n >= SMA_LONG }
SessionDownloads ==
    Downloads(SessionLens, {<< >>, <<1>>, <<-1>>}, {"flat", "multi"},
              SymbolOf(category))

GetDataSession == GetData(SessionDownloads)

Analysis ==
    \/ FlattenColumns \/ GetIndicators \/ Charts \/ MASignal
    \/ Volatility \/ RSIBlock \/ Fundamentals \/ Final

Next ==
    \/ StartRun \/ SessionInit \/ FetchHistory \/ DateSelection
    \/ AnalyzeButton \/ Gate \/ GetDataSession \/ Analysis

Spec == Init /\ [][Next]_vars

(***************************************************************************)
(* SpecIndicators: one run of the analysis block over every download of    *)
(* the model, from the state in which the run of a session that has        *)
(* pressed Analyze calls get_data (the dates are the defaults of a symbol  *)
(* whose history starts on day 0).                                         *)
(***************************************************************************)
AllDownloads == Downloads(Lens, Tails, {"flat", "multi"}, SymbolOf(category))

InitIndicators ==
    /\ session_state = [k \in {"analyzed"} |-> TRUE]
    /\ pc = "get_data"
    /\ category \in Categories
    /\ w_start = NoDate /\ w_end = NoDate
    /\ clicked = FALSE
    /\ earliest_date = 0 /\ user_start_date = 0 /\ end_date = Today
    /\ start_date = EffectiveStart(0, 0, Today)
    /\ data = NoTable /\ full_data = NoTable /\ passed = NoTable
    /\ out = (IF start_date > user_start_date
               THEN <<"warning_range_limited">> ELSE << >>)
             \o <<"info_selected_range">>

GetDataAll == GetData(AllDownloads)

NextIndicators == GetDataAll \/ Analysis

SpecIndicators == InitIndicators /\ [][NextIndicators]_vars

(***************************************************************************)
(* Properties.                                                             *)
(***************************************************************************)
Written(S) == SelectSeq(out, LAMBDA m : m \in S)
Wrote(m)   == \E i \in 1..Len(out) : out[i] = m

MaOutcomes  == {"ma_buy", "ma_sell", "ma_not_enough_data"}
RsiOutcomes == {"rsi_overbought", "rsi_oversold", "rsi_neutral"}

AnalysisOutputs ==
    MaOutcomes \cup RsiOutcomes \cup
    {"chart_close", "chart_moving_averages", "volatility", "volatility_nan",
     "chart_rsi"}

AfterMaSignal == pc \in {"volatility", "rsi", "fundamentals", "final", "done"}
AfterRsi      == pc \in {"fundamentals", "final", "done"}
Rows          == Len(full_data.Close)

\* The sum of x[lo..hi], by halves.
RECURSIVE WindowSum(_, _, _)
WindowSum(x, lo, hi) ==
    IF lo > hi THEN 0
    ELSE IF lo = hi THEN x[lo]
    ELSE LET mid == (lo + hi) \div 2
         IN  WindowSum(x, lo, mid) + WindowSum(x, mid + 1, hi)

\* C1: once the moving-average block of a run has executed, exactly one of
\* Buy, Sell and the "not enough data" info has been written: the info if
\* either last average is undefined, Buy if the short one is greater, Sell if
\* it is smaller, and the info again if the two are exactly equal.
C1_MaSignalReported ==
    (full_data.bound /\ AfterMaSignal) =>
        LET s == full_data.SMA_50[Rows]
            l == full_data.SMA_200[Rows]
        IN  Written(MaOutcomes) =
              IF s = NaN \/ l = NaN THEN <<"ma_not_enough_data">>
              ELSE IF s[1] * l[2] > l[1] * s[2] THEN <<"ma_buy">>
              ELSE IF s[1] * l[2] < l[1] * s[2] THEN <<"ma_sell">>
              ELSE <<"ma_not_enough_data">>

\* C2: once the RSI block of a run has executed, no RSI message has been
\* written if the last RSI value is undefined; otherwise exactly one has:
\* overbought above 70, oversold below 30, neutral in between, 30 and 70
\* themselves included.
C2_RsiSignal ==
    (full_data.bound /\ AfterRsi) =>
        LET r == full_data.RSI[Rows]
        IN  Written(RsiOutcomes) =
              IF r = NaN THEN << >>
              ELSE IF r[1] > RSI_OVERBOUGHT * r[2] THEN <<"rsi_overbought">>
              ELSE IF r[1] < RSI_OVERSOLD * r[2] THEN <<"rsi_oversold">>
              ELSE <<"rsi_neutral">>

\* C2, its case: a run whose last RSI is exactly 70 has reported neutral.
C2_Witness ==
    /\ pc = "fundamentals" /\ full_data.bound /\ Rows >= RSI_WINDOW
    /\ full_data.RSI[Rows] = <<RSI_OVERBOUGHT, 1>>
    /\ Wrote("rsi_neutral")

\* C3: a run whose table is empty after cleaning computes no indicators,
\* writes no chart, signal or volatility, and does not crash.
C3_EmptyInputTerminal ==
    (data.bound /\ Len(data.Close) = 0) =>
        /\ pc # "crashed"
        /\ \A i \in 1..Len(out) : out[i] \notin AnalysisOutputs

\* C4: in every run that executes the analysis block, the range handed to
\* get_data has its start before its end.
C4_RangeValid ==
    pc \in AnalysisPcs => start_date < end_date

\* C5: a run over a non-empty cleaned series never crashes; if the series is
\* shorter than 200 bars the moving-average signal is the "not enough data"
\* info, if it is shorter than 14 bars there is no RSI message, and the run
\* still writes the volatility, the RSI chart and the fundamentals and
\* reaches its end.
C5_InsufficientHistory ==
    /\ (data.bound /\ Len(data.Close) >= 1) => pc # "crashed"
    /\ (full_data.bound /\ Rows >= 1 /\ Rows < SMA_LONG /\ AfterMaSignal) =>
          Written(MaOutcomes) = <<"ma_not_enough_data">>
    /\ (full_data.bound /\ Rows >= 1 /\ Rows < RSI_WINDOW /\ AfterRsi) =>
          /\ Written(RsiOutcomes) = << >>
          /\ Wrote("chart_rsi")
    /\ (full_data.bound /\ Rows >= 1 /\ Rows < SMA_LONG /\ pc = "done") =>
          /\ Wrote("volatility") \/ Wrote("volatility_nan")
          /\ Wrote("chart_rsi")
          /\ \/ Wrote("fundamentals") \/ Wrote("warning_fundamentals")
             \/ Wrote("info_fundamentals_stocks_only")

\* C5, its case: a run over fewer than 14 bars has reached its end.
C5_Witness ==
    /\ pc = "done" /\ full_data.bound /\ Rows >= 1 /\ Rows < RSI_WINDOW
    /\ Wrote("ma_not_enough_data")

\* C6: each moving-average column get_indicators returns is as long as the
\* series, undefined in the rows before its window is full, and from there
\* on the mean of the w closes that end at the row.
TrailingMean(col, w) ==
    /\ Len(col) = Rows
    /\ \A i \in 1..Rows :
          IF i < w THEN col[i] = NaN
          ELSE col[i] = <<WindowSum(full_data.Close, i - w + 1, i), w>>

C6_StrictTrailingMA ==
    pc = "charts" =>
        /\ TrailingMean(full_data.SMA_50, SMA_SHORT)
        /\ TrailingMean(full_data.SMA_200, SMA_LONG)

\* C6, its case: the 200-bar window has moved past the first row and the
\* average has changed with it.
C6_Witness ==
    /\ pc = "charts" /\ Rows > SMA_LONG
    /\ full_data.SMA_200[Rows] # NaN
    /\ full_data.SMA_200[Rows] # full_data.SMA_200[Rows - 1]

\* C7: after flatten_columns and after get_indicators have returned, the
\* table the caller passed in has the column labels it had at the call.
C7_InputsUnchanged ==
    pc \in {"indicators", "charts"} =>
        /\ data.columns = passed.columns
        /\ data.multi = passed.multi

\* C8, as claimed: the RSI is undefined in each of the first 14 rows, so a
\* series of at most 14 bars gets no RSI message.
C8_RsiWarmup14 ==
    full_data.bound =>
        /\ \A i \in 1..Min(Rows, RSI_WINDOW) : full_data.RSI[i] = NaN
        /\ (Rows <= RSI_WINDOW /\ AfterRsi) => Written(RsiOutcomes) = << >>

\* C8, amended: the RSI is undefined in each of the first 13 rows and
\* defined in every row from the 14th on, so a series of at most 13 bars
\* gets no RSI message and a series of 14 bars or more gets one.
C8_RsiWarmup13 ==
    full_data.bound =>
        /\ Len(full_data.RSI) = Rows
        /\ \A i \in 1..Rows : (full_data.RSI[i] = NaN) <=> (i <= RSI_WINDOW - 1)
        /\ AfterRsi => ((Written(RsiOutcomes) = << >>) <=> (Rows <= RSI_WINDOW - 1))

\* C8, its case: a series of exactly 14 bars has got its RSI message.
C8_Witness ==
    /\ pc = "fundamentals" /\ full_data.bound /\ Rows = RSI_WINDOW
    /\ Len(Written(RsiOutcomes)) = 1

\* C9: the flag is absent only when the first run starts and is set to false
\* there; it becomes true only where a run takes the pressed button's branch
\* and reruns; once true it stays true; the analysis block is entered only
\* with the flag true, and with the flag true a run that reaches line 130
\* enters it, the button not pressed in that run.
C9_AnalyzeGating ==
    [][/\ "analyzed" \notin DOMAIN session_state => (pc = "start" /\ ~Analyzed')
       /\ "analyzed" \in DOMAIN session_state'
       /\ Analyzed => Analyzed'
       /\ (~Analyzed /\ Analyzed') => (pc = "button" /\ clicked /\ pc' = "rerun")
       /\ pc' \in AnalysisPcs => Analyzed'
       /\ (pc = "gate" /\ Analyzed) => (pc' = "get_data" /\ ~clicked)
       /\ (pc = "gate" /\ ~Analyzed) => pc' = "final"]_vars

\* C9, its case: a run entered the analysis block without a button press.
C9_Witness ==
    pc = "get_data" /\ Analyzed /\ ~clicked

\* C10: "Analysis complete!" is written only by a run that executed the
\* analysis block.
C10_CompleteOnlyAfterAnalysis ==
    Wrote("analysis_complete") => (Analyzed /\ Wrote("chart_close"))

=============================================================================
